---- MODULE Spec2Model ----
(***************************************************************************)
(* xcdat::Trie<Fast> (include/xcdat/Trie.hpp): the query engine of the     *)
(* double-array trie dictionary -- lookup, access, PrefixIterator and      *)
(* PredictiveIterator -- over the packed BASE/CHECK array, the terminal    *)
(* flags with rank/select, the tail with its two suffix encodings and the  *)
(* code table.  The dictionary itself is produced by TrieBuilder, which is *)
(* not part of Trie.hpp; its output is modelled from the data model of the *)
(* specification (sections 3 and 6).                                       *)
(*                                                                         *)
(* C++ arrays are 0-based; a TLA+ sequence s holds element i at s[i + 1].  *)
(***************************************************************************)
EXTENDS Integers, Sequences, FiniteSets, TLC

(***************************************************************************)
(* Bounds of the model.                                                    *)
(***************************************************************************)
\* longest registered key
MaxKeyLen == 2
\* largest number of registered keys
MaxKeys == 3
\* longest query string handed to lookup and to the iterator factories
MaxInputLen == 3
\* ids handed to access range over 0 .. MaxKeys + ExtraIds, and NOT_FOUND
ExtraIds == 1
\* calls of next() made on a cursor after it has returned false
MaxCallsAfterEnd == 2
\* side by side: the most keys of a dictionary, the longest input
SharedMaxKeys == 2
SharedMaxInputLen == 1
\* cursors driven to their end: the most keys of a dictionary, the longest input
LiveMaxKeys == 2
LiveMaxKeyLen == 1
LiveMaxInputLen == 2

\* '\0'
NUL == 0
\* The byte universe (uint8_t scaled down): NUL and two ordinary bytes.
Bytes == {NUL, 1, 2}
\* Half the size of table_: table_[c] is the code of byte c and
\* table_[code + TableHalf] the byte of a code (256 in the source).
TableHalf == Cardinality(Bytes)

\* ID_MAX: the largest id_type value, scaled down to a value no node id,
\* key id or tail position of the model reaches.
ID_MAX == 4 * (MaxKeys * MaxKeyLen + 2)
NOT_FOUND == ID_MAX

\* number of slots of the BASE/CHECK array, free slots included
NumSlots == 4 * (MaxKeys * MaxKeyLen + 1)
\* CHECK of a free slot and of the root: never the id of a parent
NoParent == ID_MAX

(***************************************************************************)
(* Byte strings.                                                           *)
(***************************************************************************)
Strings(n) == UNION {[1..k -> Bytes] : k \in 0..n}

IsPrefixOf(p, s) == Len(p) <= Len(s) /\ SubSeq(s, 1, Len(p)) = p

\* strict lexicographic order on unsigned bytes
LexLess(a, b) ==
  \E i \in 0..Len(a) :
     /\ i <= Len(b)
     /\ SubSeq(a, 1, i) = SubSeq(b, 1, i)
     /\ \/ (i = Len(a) /\ i < Len(b))
        \/ (i < Len(a) /\ i < Len(b) /\ a[i + 1] < b[i + 1])

RECURSIVE Reverse(_)
Reverse(s) == IF s = <<>> THEN <<>> ELSE Append(Reverse(Tail(s)), Head(s))

\* std::sort of a finite set of integers into an ascending sequence
RECURSIVE SortedSeq(_)
SortedSeq(S) ==
  IF S = {} THEN <<>>
  ELSE LET m == CHOOSE x \in S : \A y \in S : x <= y
       IN <<m>> \o SortedSeq(S \ {m})

\* bitwise XOR of two unsigned integers (id_type ^ id_type)
RECURSIVE Xor(_, _)
Xor(a, b) ==
  IF a = 0 THEN b
  ELSE IF b = 0 THEN a
  ELSE (((a % 2) + (b % 2)) % 2) + (2 * Xor(a \div 2, b \div 2))

\* element i (0-based) of a C++ array held as a sequence
At(s, i) == s[i + 1]

(***************************************************************************)
(* The dictionary TrieBuilder hands to the Trie (specification, section 3  *)
(* and "Builder interface consumed").  K is the sorted, deduplicated key   *)
(* set.  A node is identified during construction by the path spelled from *)
(* the root; a node under which a single key remains is a leaf and keeps   *)
(* the rest of that key in the tail.                                       *)
(***************************************************************************)
\* the keys of K that pass through the node of path p
Ext(K, p) == {k \in K : IsPrefixOf(p, k)}

\* bytes labelling the edges that leave the node of path p
Edges(K, p) == {k[Len(p) + 1] : k \in {x \in Ext(K, p) : Len(x) > Len(p)}}

\* number of occurrences of byte b in key k
Occurrences(k, b) == Cardinality({i \in 1..Len(k) : k[i] = b})

RECURSIVE Frequency(_, _)
Frequency(K, b) ==
  IF K = {} THEN 0
  ELSE LET k == CHOOSE x \in K : TRUE
       IN Occurrences(k, b) + Frequency(K \ {k}, b)

\* alphabet_: the distinct bytes of the keys, ascending
BuildAlphabet(K) == SortedSeq({b \in Bytes : Frequency(K, b) > 0})

\* the codes of all bytes: bytes are numbered by falling frequency, so the
\* bytes of the alphabet take the codes 0 .. alphabet_size - 1 and every
\* other byte a code of its own above them (table[table[c] + 256] = c)
BuildCodes(K) ==
  LET freq == [b \in Bytes |-> Frequency(K, b)]
  IN [b \in Bytes |->
        Cardinality({c \in Bytes :
           \/ freq[c] > freq[b]
           \/ (freq[c] = freq[b] /\ c < b)})]

\* table_: first half byte -> code, second half code -> byte
BuildTable(code) ==
  [i \in 0..(2 * TableHalf - 1) |->
     IF i < TableHalf THEN code[i]
     ELSE CHOOSE b \in Bytes : code[b] = i - TableHalf]

\* an empty BASE/CHECK array; the root occupies slot 0
EmptyArray ==
  [used  |-> [n \in 0..(NumSlots - 1) |-> n = 0],
   base  |-> [n \in 0..(NumSlots - 1) |-> 0],
   check |-> [n \in 0..(NumSlots - 1) |-> NoParent],
   path  |-> [n \in 0..(NumSlots - 1) |-> <<>>]]

\* the smallest BASE whose XOR with every edge code is a free slot
FindBase(arr, codes) ==
  LET fits(b) == \A c \in codes :
                    /\ Xor(b, c) < NumSlots
                    /\ ~arr.used[Xor(b, c)]
  IN CHOOSE b \in 0..(NumSlots - 1) :
        fits(b) /\ \A b2 \in 0..(b - 1) : ~fits(b2)

\* places the subtrees of the nodes on the stack, depth first: the children
\* of a node are allotted together, then each child's subtree in edge order
RECURSIVE BuildBc(_, _, _, _)
BuildBc(K, code, arr, stack) ==
  IF stack = <<>> THEN arr
  ELSE LET n == Head(stack)
           p == arr.path[n]
       IN IF Cardinality(Ext(K, p)) = 1
          THEN BuildBc(K, code, arr, Tail(stack))
          ELSE LET es    == SortedSeq(Edges(K, p))
                   b     == FindBase(arr, {code[e] : e \in Edges(K, p)})
                   kid(i) == Xor(b, code[es[i]])
                   kids  == [i \in 1..Len(es) |-> kid(i)]
                   isKid(m) == \E i \in 1..Len(es) : kid(i) = m
                   edgeTo(m) == es[CHOOSE i \in 1..Len(es) : kid(i) = m]
                   arr2  ==
                     [used  |-> [m \in 0..(NumSlots - 1) |-> arr.used[m] \/ isKid(m)],
                      base  |-> [m \in 0..(NumSlots - 1) |-> IF m = n THEN b ELSE arr.base[m]],
                      check |-> [m \in 0..(NumSlots - 1) |->
                                   IF isKid(m) THEN n ELSE arr.check[m]],
                      path  |-> [m \in 0..(NumSlots - 1) |->
                                   IF isKid(m) THEN Append(p, edgeTo(m))
                                   ELSE arr.path[m]]]
               IN BuildBc(K, code, arr2, kids \o Tail(stack))

\* the suffix a leaf keeps in the tail: its only key without the path
SuffixOf(K, p) ==
  LET k == CHOOSE x \in K : IsPrefixOf(p, x)
  IN SubSeq(k, Len(p) + 1, Len(k))

\* the tail: position 0 stands for the empty suffix; then the non-empty
\* suffixes of the leaves, each closed by NUL (text mode) or flagged at its
\* last byte (binary mode).  Returns the tail, the flags and the links.
RECURSIVE BuildTail(_, _, _, _, _)
BuildTail(K, arr, bin, leaves, acc) ==
  IF leaves = <<>> THEN acc
  ELSE LET n   == Head(leaves)
           suf == SuffixOf(K, arr.path[n])
           last == [i \in 1..Len(suf) |-> i = Len(suf)]
       IN IF suf = <<>>
          THEN BuildTail(K, arr, bin, Tail(leaves), acc)
          ELSE BuildTail(K, arr, bin, Tail(leaves),
                 [tail  |-> IF bin THEN acc.tail \o suf
                            ELSE acc.tail \o suf \o <<NUL>>,
                  flags |-> IF bin THEN acc.flags \o last
                            ELSE acc.flags,
                  link  |-> [m \in 0..(NumSlots - 1) |->
                              IF m = n THEN Len(acc.tail) ELSE acc.link[m]]])

\* the whole dictionary for key set K in the given tail mode
Build(K, bin) ==
  LET code   == BuildCodes(K)
      arr    == BuildBc(K, code, EmptyArray, <<0>>)
      nodes  == {n \in 0..(NumSlots - 1) : arr.used[n]}
      isLeaf(n) == arr.used[n] /\ Cardinality(Ext(K, arr.path[n])) = 1
      leaves == SortedSeq({n \in nodes : isLeaf(n)})
      t      == BuildTail(K, arr, bin, leaves,
                  [tail  |-> <<NUL>>,
                   flags |-> IF bin THEN <<FALSE>> ELSE <<>>,
                   link  |-> [n \in 0..(NumSlots - 1) |-> 0]])
  IN [bc |-> [n \in 0..(NumSlots - 1) |->
                [base    |-> arr.base[n],
                 check   |-> arr.check[n],
                 is_leaf |-> isLeaf(n),
                 link    |-> t.link[n]]],
      terminal_flags |-> [n \in 0..(NumSlots - 1) |->
                            arr.used[n] /\ (isLeaf(n) \/ arr.path[n] \in K)],
      tail           |-> t.tail,
      boundary_flags |-> t.flags,
      alphabet       |-> BuildAlphabet(K),
      table          |-> BuildTable(code),
      num_keys       |-> Cardinality(K),
      max_length     |-> CHOOSE m \in 0..MaxKeyLen :
                           /\ \E k \in K : Len(k) = m
                           /\ \A k \in K : Len(k) <= m,
      bin_mode       |-> bin]

\* key sets of at most n keys
RECURSIVE KeySetsUpTo(_)
KeySetsUpTo(n) ==
  IF n = 0 THEN {{}}
  ELSE LET smaller == KeySetsUpTo(n - 1)
       IN smaller \cup {S \cup {k} : S \in smaller, k \in Strings(MaxKeyLen)}

\* the key sets a dictionary is built from: not empty; a key set holding a
\* NUL byte is built in binary mode
KeySets == KeySetsUpTo(MaxKeys) \ {{}}

HasNul(K) == \E k \in K : \E i \in 1..Len(k) : k[i] = NUL

(***************************************************************************)
(* State.  The fields of the Trie, the key set it was built from, and the  *)
(* objects of the client: the last results of lookup and access and one    *)
(* cursor of each iterator class.                                          *)
(***************************************************************************)
VARIABLES
  keys_,            \* TrieBuilder::keys_: the registered keys
  bc_,              \* BASE, CHECK, leaf flag and LINK of every slot
  terminal_flags_,
  tail_,
  boundary_flags_,
  alphabet_,
  table_,
  num_keys_,
  max_length_,
  bin_mode_,
  lookup_res,       \* the last call of lookup and what it returned
  access_res,       \* the last call of access and what it returned
  prefix_it,        \* a PrefixIterator
  prefix_obs,       \* what its caller saw: return values and (key, id) pairs
  predictive_it,    \* a PredictiveIterator
  predictive_obs,
  stream_,          \* the std::ostream / std::istream: the images written
  loaded_           \* the Trie was constructed from the stream

trie_vars == <<keys_, bc_, terminal_flags_, tail_, boundary_flags_, alphabet_,
               table_, num_keys_, max_length_, bin_mode_>>
vars == <<keys_, bc_, terminal_flags_, tail_, boundary_flags_, alphabet_,
          table_, num_keys_, max_length_, bin_mode_,
          lookup_res, access_res, prefix_it, prefix_obs,
          predictive_it, predictive_obs, stream_, loaded_>>
io_vars == <<stream_, loaded_>>

(***************************************************************************)
(* The backends (bc_type, BitVector): their contract, section 4.3.         *)
(***************************************************************************)
InArray(n) == n \in DOMAIN bc_

base(n) == IF InArray(n) THEN bc_[n].base ELSE 0
check(n) == IF InArray(n) THEN bc_[n].check ELSE NoParent
is_leaf(n) == InArray(n) /\ bc_[n].is_leaf
link(n) == IF InArray(n) THEN bc_[n].link ELSE 0

\* terminal_flags_[n]
terminal(n) == n \in DOMAIN terminal_flags_ /\ terminal_flags_[n]

\* BitVector::rank: the number of set bits before position n
rank(n) == Cardinality({m \in DOMAIN terminal_flags_ : m < n /\ terminal_flags_[m]})

\* BitVector::select: the position of set bit number k, counted from 0
\* (outside the contract, for k beyond the set bits: the last set bit)
select(k) ==
  LET set == {m \in DOMAIN terminal_flags_ : terminal_flags_[m]}
  IN IF \E m \in set : rank(m) = k
     THEN CHOOSE m \in set : rank(m) = k
     ELSE CHOOSE m \in set : \A m2 \in set : m2 <= m

(***************************************************************************)
(* Trie: private helpers.                                                  *)
(***************************************************************************)
\* to_key_id_ with the other rank convention: the set bits up to and
\* including node_id
to_key_id_inclusive(node_id) == rank(node_id + 1)

to_key_id_(node_id) == rank(node_id)

to_node_id_(string_id) == select(string_id)

code_(c) == table_[c]

edge_(node_id, child_id) == table_[Xor(base(node_id), child_id) + TableHalf]

\* std::string_view: the bytes at data and the length of the view; the
\* bytes of data beyond length are memory past the end of the view
View(s) == [data |-> s, length |-> Len(s)]

\* key[i]: the byte read, any byte when i is past the memory known at data
KeyRead(key, i) == IF i < Len(key.data) THEN {At(key.data, i)} ELSE Bytes

\* tail_[i] and boundary_flags_[i] exist
InTail(i) == i < Len(tail_)
InFlags(i) == i < Len(boundary_flags_)

\* the outcomes of a scan that has read past the end of tail_
Undefined == {"true", "false"}

\* match_suffix_, binary mode: the do-while loop
RECURSIVE MatchBin(_, _, _)
MatchBin(key, pos, tail_pos) ==
  IF ~InTail(tail_pos) \/ ~InFlags(tail_pos) THEN Undefined
  ELSE UNION {
    IF c # At(tail_, tail_pos) THEN {"false"}
    ELSE IF At(boundary_flags_, tail_pos)
         THEN {IF pos + 1 = key.length THEN "true" ELSE "false"}
    ELSE IF pos + 1 < key.length
         THEN MatchBin(key, pos + 1, tail_pos + 1)
    ELSE {"false"}
    : c \in KeyRead(key, pos)}

\* match_suffix_, text mode: the do-while loop and the final test
RECURSIVE MatchText(_, _, _)
MatchText(key, pos, tail_pos) ==
  IF ~InTail(tail_pos) THEN Undefined
  ELSE UNION {
    IF At(tail_, tail_pos) = NUL \/ c # At(tail_, tail_pos) THEN {"false"}
    ELSE IF pos + 1 < key.length
         THEN MatchText(key, pos + 1, tail_pos + 1)
    ELSE IF ~InTail(tail_pos + 1) THEN Undefined
    ELSE {IF At(tail_, tail_pos + 1) = NUL THEN "true" ELSE "false"}
    : c \in KeyRead(key, pos)}

\* match_suffix_: the set of its outcomes, "true" or "false" returned, or
\* "abort" when the assertion pos <= key.length() fails; where the
\* assertion is compiled out the scan goes on
match_suffix_(key, pos, tail_pos) ==
  (IF pos <= key.length THEN {} ELSE {"abort"}) \cup
  (IF pos = key.length
   THEN {IF tail_pos = 0 THEN "true" ELSE "false"}
   ELSE IF bin_mode_ THEN MatchBin(key, pos, tail_pos)
   ELSE MatchText(key, pos, tail_pos))

\* extract_suffix_, binary mode: the do-while loop
RECURSIVE ExtractBin(_, _)
ExtractBin(tail_pos, dec) ==
  IF ~InTail(tail_pos) \/ ~InFlags(tail_pos) THEN dec
  ELSE IF At(boundary_flags_, tail_pos) THEN Append(dec, At(tail_, tail_pos))
  ELSE ExtractBin(tail_pos + 1, Append(dec, At(tail_, tail_pos)))

\* extract_suffix_, text mode: the while loop
RECURSIVE ExtractText(_, _)
ExtractText(tail_pos, dec) ==
  IF ~InTail(tail_pos) \/ At(tail_, tail_pos) = NUL THEN dec
  ELSE ExtractText(tail_pos + 1, Append(dec, At(tail_, tail_pos)))

\* extract_suffix_: dec with the suffix at tail_pos appended
extract_suffix_(tail_pos, dec) ==
  IF bin_mode_
  THEN IF tail_pos # 0 THEN ExtractBin(tail_pos, dec) ELSE dec
  ELSE ExtractText(tail_pos, dec)

(***************************************************************************)
(* Trie::lookup.                                                           *)
(***************************************************************************)
\* no value: the process was aborted by a failed assertion
ABORTED == ID_MAX + 1

\* what lookup returns for an outcome of match_suffix_ at a leaf
LookupAtLeaf(node_id, outcome) ==
  IF outcome = "abort" THEN ABORTED
  ELSE IF outcome = "true" THEN to_key_id_(node_id)
  ELSE NOT_FOUND

\* the while loop of lookup from (pos, node_id), then the suffix match
RECURSIVE LookupFrom(_, _, _)
LookupFrom(key, pos, node_id) ==
  IF ~is_leaf(node_id)
  THEN IF pos = key.length
       THEN {IF terminal(node_id) THEN to_key_id_(node_id) ELSE NOT_FOUND}
       ELSE LET child_id == Xor(base(node_id), code_(At(key.data, pos)))
            IN IF check(child_id) # node_id THEN {NOT_FOUND}
               ELSE LookupFrom(key, pos + 1, child_id)
  ELSE {LookupAtLeaf(node_id, o) : o \in match_suffix_(key, pos, link(node_id))}

\* lookup(key): the set of values the call can return
lookup(key) == LookupFrom(View(key), 0, 0)

(***************************************************************************)
(* Trie::access.                                                           *)
(***************************************************************************)
\* the while loop of access: the edge bytes from node_id up to the root
RECURSIVE AccessUp(_)
AccessUp(node_id) ==
  IF node_id = 0 THEN <<>>
  ELSE <<edge_(check(node_id), node_id)>> \o AccessUp(check(node_id))

\* the do-while loop of access in binary mode
RECURSIVE AccessTailBin(_, _)
AccessTailBin(tail_pos, dec) ==
  IF ~InTail(tail_pos) \/ ~InFlags(tail_pos) THEN dec
  ELSE IF At(boundary_flags_, tail_pos) THEN Append(dec, At(tail_, tail_pos))
  ELSE AccessTailBin(tail_pos + 1, Append(dec, At(tail_, tail_pos)))

\* the do-while loop of access in text mode
RECURSIVE AccessTailText(_, _)
AccessTailText(tail_pos, dec) ==
  IF ~InTail(tail_pos) THEN dec
  ELSE IF ~InTail(tail_pos + 1) \/ At(tail_, tail_pos + 1) = NUL
       THEN Append(dec, At(tail_, tail_pos))
  ELSE AccessTailText(tail_pos + 1, Append(dec, At(tail_, tail_pos)))

\* access without std::reverse: the path bytes stay in walk order
access_without_reverse(id) ==
  IF num_keys_ <= id THEN [dec |-> <<>>, reads |-> {}]
  ELSE LET node_id  == to_node_id_(id)
           tail_pos == IF is_leaf(node_id) THEN link(node_id) ELSE NOT_FOUND
           dec      == AccessUp(node_id)
       IN IF tail_pos # 0 /\ tail_pos # NOT_FOUND
          THEN [dec   |-> IF bin_mode_ THEN AccessTailBin(tail_pos, dec)
                          ELSE AccessTailText(tail_pos, dec),
                reads |-> {"terminal_flags", "bc", "table", "tail"}]
          ELSE [dec |-> dec, reads |-> {"terminal_flags", "bc", "table"}]

\* access with the range test off by one: num_keys_ < id
access_off_by_one(id) ==
  IF num_keys_ < id THEN [dec |-> <<>>, reads |-> {}]
  ELSE LET node_id  == to_node_id_(id)
           tail_pos == IF is_leaf(node_id) THEN link(node_id) ELSE NOT_FOUND
           dec      == Reverse(AccessUp(node_id))
       IN IF tail_pos # 0 /\ tail_pos # NOT_FOUND
          THEN [dec   |-> IF bin_mode_ THEN AccessTailBin(tail_pos, dec)
                          ELSE AccessTailText(tail_pos, dec),
                reads |-> {"terminal_flags", "bc", "table", "tail"}]
          ELSE [dec |-> dec, reads |-> {"terminal_flags", "bc", "table"}]

\* access(id): the decoded key, and the components the call consulted
access(id) ==
  IF num_keys_ <= id THEN [dec |-> <<>>, reads |-> {}]
  ELSE LET node_id  == to_node_id_(id)
           tail_pos == IF is_leaf(node_id) THEN link(node_id) ELSE NOT_FOUND
           dec      == Reverse(AccessUp(node_id))
       IN IF tail_pos # 0 /\ tail_pos # NOT_FOUND
          THEN [dec   |-> IF bin_mode_ THEN AccessTailBin(tail_pos, dec)
                          ELSE AccessTailText(tail_pos, dec),
                reads |-> {"terminal_flags", "bc", "table", "tail"}]
          ELSE [dec |-> dec, reads |-> {"terminal_flags", "bc", "table"}]

(***************************************************************************)
(* PrefixIterator and Trie::next_prefix_.                                  *)
(***************************************************************************)
\* PrefixIterator(): no trie
DefaultPrefixIterator ==
  [trie_ |-> FALSE, key_ |-> <<>>, pos_ |-> 0, node_id_ |-> 0, id_ |-> 0,
   begin_flag_ |-> TRUE, end_flag_ |-> FALSE]

\* PrefixIterator(trie, key)
NewPrefixIterator(key) == [DefaultPrefixIterator EXCEPT !.trie_ = TRUE, !.key_ = key]

\* what the caller of a cursor has seen: the last value of next(), the
\* (key, id) pairs after each true, the bytes read past the end of key_,
\* the faults of the run ("index": key_ indexed at or past its length;
\* "assert": match_suffix_ entered with pos > key.length()), and the number
\* of calls made after a call returned false
NoObs == [ret |-> "none", out |-> <<>>, oob |-> <<>>, faults |-> {}, after_end |-> 0]

\* the memory at key_.data as read so far, and the view's length
PrefixView(it, oob) == [data |-> it.key_ \o oob, length |-> Len(it.key_)]

\* PrefixIterator::key(): pos_ bytes from key_.data
PrefixKey(it, oob) == SubSeq(it.key_ \o oob, 1, it.pos_)

\* next_prefix_ after the loop: the cursor is on a leaf
PrefixAtLeaf(it, oob, faults) ==
  LET ended    == [it EXCEPT !.end_flag_ = TRUE]
      tail_pos == link(it.node_id_)
      faults2  == IF it.pos_ > Len(it.key_) THEN faults \cup {"assert"} ELSE faults
  IN {IF o = "abort"
      THEN [it |-> ended, oob |-> oob, faults |-> faults2, ret |-> "abort"]
      ELSE IF o = "false"
      THEN [it |-> [ended EXCEPT !.id_ = NOT_FOUND],
            oob |-> oob, faults |-> faults2, ret |-> "false"]
      ELSE [it |-> [ended EXCEPT !.pos_ = Len(it.key_),
                                 !.id_ = to_key_id_(it.node_id_)],
            oob |-> oob, faults |-> faults2, ret |-> "true"]
      : o \in match_suffix_(PrefixView(it, oob), it.pos_, tail_pos)}

\* the while loop of next_prefix_; key_[pos_++] past the end of the view
\* reads whatever byte lies there
RECURSIVE PrefixWalk(_, _, _)
PrefixWalk(it, oob, faults) ==
  IF is_leaf(it.node_id_) THEN PrefixAtLeaf(it, oob, faults)
  ELSE LET inside == it.pos_ < Len(it.key_)
       IN UNION {
            LET oob2     == IF inside THEN oob ELSE Append(oob, c)
                faults2  == IF inside THEN faults ELSE faults \cup {"index"}
                child_id == Xor(base(it.node_id_), code_(c))
                moved    == [it EXCEPT !.pos_ = it.pos_ + 1]
            IN IF check(child_id) # it.node_id_
               THEN {[it |-> [moved EXCEPT !.end_flag_ = TRUE, !.id_ = NOT_FOUND],
                      oob |-> oob2, faults |-> faults2, ret |-> "false"]}
               ELSE IF ~is_leaf(child_id) /\ terminal(child_id)
               THEN {[it |-> [moved EXCEPT !.node_id_ = child_id,
                                           !.id_ = to_key_id_(child_id)],
                      oob |-> oob2, faults |-> faults2, ret |-> "true"]}
               ELSE PrefixWalk([moved EXCEPT !.node_id_ = child_id], oob2, faults2)
            : c \in KeyRead(PrefixView(it, oob), it.pos_)}

\* next_prefix_ without the test of end_flag_ at its top
next_prefix_ignoring_end(it, oob, faults) ==
  IF it.begin_flag_ /\ terminal(it.node_id_)
  THEN {[it |-> [it EXCEPT !.begin_flag_ = FALSE, !.id_ = to_key_id_(it.node_id_)],
         oob |-> oob, faults |-> faults, ret |-> "true"]}
  ELSE PrefixWalk([it EXCEPT !.begin_flag_ = FALSE], oob, faults)

\* next_prefix_(it): the set of outcomes of one call
next_prefix_(it, oob, faults) ==
  IF it.end_flag_
  THEN {[it |-> it, oob |-> oob, faults |-> faults, ret |-> "false"]}
  ELSE IF it.begin_flag_ /\ terminal(it.node_id_)
  THEN {[it |-> [it EXCEPT !.begin_flag_ = FALSE, !.id_ = to_key_id_(it.node_id_)],
         oob |-> oob, faults |-> faults, ret |-> "true"]}
  ELSE PrefixWalk([it EXCEPT !.begin_flag_ = FALSE], oob, faults)

\* PrefixIterator::next()
PrefixIterator_next(it, oob, faults) ==
  IF ~it.trie_
  THEN {[it |-> it, oob |-> oob, faults |-> faults, ret |-> "false"]}
  ELSE next_prefix_(it, oob, faults)

(***************************************************************************)
(* PredictiveIterator and Trie::next_predictive_.                          *)
(***************************************************************************)
\* what the caller of a PredictiveIterator has seen
NoPredictiveObs == [ret |-> "none", out |-> <<>>, after_end |-> 0]

DefaultPredictiveIterator ==
  [trie_ |-> FALSE, key_ |-> <<>>, begin_flag_ |-> TRUE, end_flag_ |-> FALSE,
   stack_ |-> <<>>, buf_ |-> <<>>, id_ |-> 0]

NewPredictiveIterator(key) ==
  [DefaultPredictiveIterator EXCEPT !.trie_ = TRUE, !.key_ = key]

\* std::string::resize(n): cut, or filled up with NUL
Resize(buf, n) == [i \in 1..n |-> IF i <= Len(buf) THEN buf[i] ELSE NUL]

\* buf.back() = c
SetBack(buf, c) == [i \in 1..Len(buf) |-> IF i = Len(buf) THEN c ELSE buf[i]]

\* descent on a leaf, binary mode: the do-while loop, then the completion
RECURSIVE PredictiveLeafBin(_, _, _, _)
PredictiveLeafBin(it, node_id, pos, tail_pos) ==
  IF At(it.key_, pos) # At(tail_, tail_pos) THEN [it |-> it, ret |-> "false"]
  ELSE LET it1 == [it EXCEPT !.buf_ = Append(it.buf_, At(it.key_, pos))]
       IN IF At(boundary_flags_, tail_pos)
          THEN IF pos + 1 = Len(it.key_)
               THEN [it |-> [it1 EXCEPT !.id_ = to_key_id_(node_id)], ret |-> "true"]
               ELSE [it |-> it1, ret |-> "false"]
          ELSE IF pos + 1 < Len(it.key_)
          THEN PredictiveLeafBin(it1, node_id, pos + 1, tail_pos + 1)
          ELSE [it |-> [it1 EXCEPT !.id_ = to_key_id_(node_id),
                                   !.buf_ = extract_suffix_(tail_pos + 1, it1.buf_)],
                ret |-> "true"]

\* descent on a leaf, text mode, without the call of extract_suffix_ after
\* the loop: the key yielded ends where the input ends
RECURSIVE PredictiveLeafTextInputOnly(_, _, _, _)
PredictiveLeafTextInputOnly(it, node_id, pos, tail_pos) ==
  IF At(it.key_, pos) # At(tail_, tail_pos) \/ At(tail_, tail_pos) = NUL
  THEN [it |-> it, ret |-> "false"]
  ELSE LET it1 == [it EXCEPT !.buf_ = Append(it.buf_, At(it.key_, pos))]
       IN IF pos + 1 < Len(it.key_)
          THEN PredictiveLeafTextInputOnly(it1, node_id, pos + 1, tail_pos + 1)
          ELSE [it |-> [it1 EXCEPT !.id_ = to_key_id_(node_id)], ret |-> "true"]

\* descent on a leaf, text mode
RECURSIVE PredictiveLeafText(_, _, _, _)
PredictiveLeafText(it, node_id, pos, tail_pos) ==
  IF At(it.key_, pos) # At(tail_, tail_pos) \/ At(tail_, tail_pos) = NUL
  THEN [it |-> it, ret |-> "false"]
  ELSE LET it1 == [it EXCEPT !.buf_ = Append(it.buf_, At(it.key_, pos))]
       IN IF pos + 1 < Len(it.key_)
          THEN PredictiveLeafText(it1, node_id, pos + 1, tail_pos + 1)
          ELSE [it |-> [it1 EXCEPT !.id_ = to_key_id_(node_id),
                                   !.buf_ = extract_suffix_(tail_pos + 1, it1.buf_)],
                ret |-> "true"]

\* the stack frame {depth, c, node_id}
Frame(depth, c, node_id) == [depth |-> depth, c |-> c, node_id |-> node_id]

\* the for loop of the first call: walks key_ down from the root; ret is
\* "true" or "false" when the call returns from the loop, "go" when the
\* input is used up and the seed frame is pushed
RECURSIVE PredictiveDescend(_, _, _)
PredictiveDescend(it, node_id, pos) ==
  IF pos < Len(it.key_)
  THEN IF is_leaf(node_id)
       THEN LET ended    == [it EXCEPT !.end_flag_ = TRUE]
                tail_pos == link(node_id)
            IN IF tail_pos = 0 THEN [it |-> ended, ret |-> "false"]
               ELSE IF bin_mode_ THEN PredictiveLeafBin(ended, node_id, pos, tail_pos)
               ELSE PredictiveLeafText(ended, node_id, pos, tail_pos)
       ELSE LET child_id == Xor(base(node_id), code_(At(it.key_, pos)))
            IN IF check(child_id) # node_id
               THEN [it |-> [it EXCEPT !.end_flag_ = TRUE], ret |-> "false"]
               ELSE PredictiveDescend(
                      [it EXCEPT !.buf_ = Append(it.buf_, At(it.key_, pos))],
                      child_id, pos + 1)
  ELSE [it |-> [it EXCEPT !.stack_ =
                  Append(it.stack_,
                         Frame(pos,
                               IF it.buf_ # <<>> THEN it.buf_[Len(it.buf_)] ELSE NUL,
                               node_id))],
        ret |-> "go"]

\* the children pushed with the alphabet taken from its first byte to its
\* last (begin/end in place of rbegin/rend)
RECURSIVE PushChildrenForward(_, _, _, _)
PushChildrenForward(stack, node_id, depth, i) ==
  IF i = 0 THEN stack
  ELSE LET c        == alphabet_[Len(alphabet_) + 1 - i]
           child_id == Xor(base(node_id), code_(c))
       IN PushChildrenForward(
            IF check(child_id) = node_id
            THEN Append(stack, Frame(depth + 1, c, child_id))
            ELSE stack,
            node_id, depth, i - 1)

\* the frames pushed for the children of node_id, the alphabet taken from
\* its last byte to its first
RECURSIVE PushChildren(_, _, _, _)
PushChildren(stack, node_id, depth, i) ==
  IF i = 0 THEN stack
  ELSE LET c        == alphabet_[i]
           child_id == Xor(base(node_id), code_(c))
       IN PushChildren(
            IF check(child_id) = node_id
            THEN Append(stack, Frame(depth + 1, c, child_id))
            ELSE stack,
            node_id, depth, i - 1)

\* the while loop over the stack
RECURSIVE PredictiveDfs(_)
PredictiveDfs(it) ==
  IF it.stack_ = <<>>
  THEN [it |-> [it EXCEPT !.end_flag_ = TRUE], ret |-> "false"]
  ELSE LET top     == it.stack_[Len(it.stack_)]
           node_id == top.node_id
           depth   == top.depth
           popped  == SubSeq(it.stack_, 1, Len(it.stack_) - 1)
           buf     == IF 0 < depth THEN SetBack(Resize(it.buf_, depth), top.c)
                      ELSE it.buf_
       IN IF is_leaf(node_id)
          THEN [it |-> [it EXCEPT !.stack_ = popped,
                                  !.id_ = to_key_id_(node_id),
                                  !.buf_ = extract_suffix_(link(node_id), buf)],
                ret |-> "true"]
          ELSE LET pushed == PushChildren(popped, node_id, depth, Len(alphabet_))
               IN IF terminal(node_id)
                  THEN [it |-> [it EXCEPT !.stack_ = pushed, !.buf_ = buf,
                                          !.id_ = to_key_id_(node_id)],
                        ret |-> "true"]
                  ELSE PredictiveDfs([it EXCEPT !.stack_ = pushed, !.buf_ = buf])

\* next_predictive_(it)
next_predictive_(it) ==
  IF it.end_flag_ THEN [it |-> it, ret |-> "false"]
  ELSE IF it.begin_flag_
  THEN LET d == PredictiveDescend([it EXCEPT !.begin_flag_ = FALSE], 0, 0)
       IN IF d.ret = "go" THEN PredictiveDfs(d.it) ELSE d
  ELSE PredictiveDfs(it)

\* PredictiveIterator::next()
PredictiveIterator_next(it) ==
  IF ~it.trie_ THEN [it |-> it, ret |-> "false"] ELSE next_predictive_(it)

(***************************************************************************)
(* The state machine.  A dictionary is built once and never changes; the   *)
(* client then makes one point query or drives one cursor.  The methods    *)
(* are const and the dictionary immutable, so a run with several queries   *)
(* is the runs of its queries side by side.                                *)
(***************************************************************************)
Inputs == Strings(MaxInputLen)

NoLookup == [called |-> FALSE, key |-> <<>>, id |-> 0]
NoAccess == [called |-> FALSE, id |-> 0, dec |-> <<>>, reads |-> {}]

\* the ids handed to access
AccessIds == 0..(MaxKeys + ExtraIds) \cup {NOT_FOUND}

InitTrie(K, bin) ==
  \E d \in {Build(K, bin)} :
     /\ keys_ = K
     /\ bc_ = d.bc
     /\ terminal_flags_ = d.terminal_flags
     /\ tail_ = d.tail
     /\ boundary_flags_ = d.boundary_flags
     /\ alphabet_ = d.alphabet
     /\ table_ = d.table
     /\ num_keys_ = d.num_keys
     /\ max_length_ = d.max_length
     /\ bin_mode_ = d.bin_mode

\* a dictionary built from one of the key sets KS, and no client object used
InitFrom(KS) ==
  /\ \E K \in KS : \E bin \in BOOLEAN :
        /\ (HasNul(K) => bin)
        /\ InitTrie(K, bin)
  /\ lookup_res = NoLookup
  /\ access_res = NoAccess
  /\ prefix_it = DefaultPrefixIterator
  /\ prefix_obs = NoObs
  /\ predictive_it = DefaultPredictiveIterator
  /\ predictive_obs = NoPredictiveObs
  /\ stream_ = <<>>
  /\ loaded_ = FALSE

Init == InitFrom(KeySets)

\* the process was ended by a failed assertion
Aborted == lookup_res.id = ABORTED \/ prefix_obs.ret = "abort"

\* no PrefixIterator was made or advanced
NoPrefixIterator == prefix_it = DefaultPrefixIterator /\ prefix_obs = NoObs
\* no PredictiveIterator was made or advanced
NoPredictiveIterator ==
  predictive_it = DefaultPredictiveIterator /\ predictive_obs = NoPredictiveObs
\* no point query was made
NoQuery == lookup_res = NoLookup /\ access_res = NoAccess

\* the client has not turned to any object yet
Idle == NoQuery /\ NoPrefixIterator /\ NoPredictiveIterator

\* id = trie.lookup(key), the key one of I
lookup_call(I) ==
  /\ \E key \in I : \E id \in lookup(key) :
        lookup_res' = [called |-> TRUE, key |-> key, id |-> id]
  /\ UNCHANGED <<access_res, prefix_it, prefix_obs, predictive_it, predictive_obs>>
  /\ UNCHANGED trie_vars
  /\ UNCHANGED io_vars

\* dec = trie.access(id)
access_call ==
  /\ \E id \in AccessIds :
        LET r == access(id)
        IN access_res' = [called |-> TRUE, id |-> id, dec |-> r.dec, reads |-> r.reads]
  /\ UNCHANGED <<lookup_res, prefix_it, prefix_obs, predictive_it, predictive_obs>>
  /\ UNCHANGED trie_vars
  /\ UNCHANGED io_vars

\* it = trie.make_prefix_iterator(key), the key one of I
make_prefix_iterator(I) ==
  /\ \E key \in I : prefix_it' = NewPrefixIterator(key)
  /\ UNCHANGED <<lookup_res, access_res, prefix_obs, predictive_it, predictive_obs>>
  /\ UNCHANGED trie_vars
  /\ UNCHANGED io_vars

\* it.next() on the PrefixIterator with end_flag_ kept in one place for all
\* cursors of the Trie instead of in each cursor
prefix_next_call_shared_end ==
  /\ \E o \in PrefixIterator_next(prefix_it, prefix_obs.oob, prefix_obs.faults) :
        /\ prefix_it' = o.it
        /\ predictive_it' = [predictive_it EXCEPT !.end_flag_ = o.it.end_flag_]
        /\ prefix_obs' =
             [ret    |-> o.ret,
              out    |-> IF o.ret = "true"
                         THEN Append(prefix_obs.out,
                                     [key |-> PrefixKey(o.it, o.oob), id |-> o.it.id_])
                         ELSE prefix_obs.out,
              oob    |-> o.oob,
              faults |-> o.faults,
              after_end |-> IF prefix_obs.ret = "false"
                            THEN prefix_obs.after_end + 1
                            ELSE prefix_obs.after_end]
  /\ UNCHANGED <<lookup_res, access_res, predictive_obs>>
  /\ UNCHANGED trie_vars
  /\ UNCHANGED io_vars

\* it.next() on the PrefixIterator; after true the caller reads key(), id()
prefix_next_call ==
  /\ \E o \in PrefixIterator_next(prefix_it, prefix_obs.oob, prefix_obs.faults) :
        /\ prefix_it' = o.it
        /\ prefix_obs' =
             [ret    |-> o.ret,
              out    |-> IF o.ret = "true"
                         THEN Append(prefix_obs.out,
                                     [key |-> PrefixKey(o.it, o.oob), id |-> o.it.id_])
                         ELSE prefix_obs.out,
              oob    |-> o.oob,
              faults |-> o.faults,
              after_end |-> IF prefix_obs.ret = "false"
                            THEN prefix_obs.after_end + 1
                            ELSE prefix_obs.after_end]
  /\ UNCHANGED <<lookup_res, access_res, predictive_it, predictive_obs>>
  /\ UNCHANGED trie_vars
  /\ UNCHANGED io_vars

\* it = trie.make_predictive_iterator(key), the key one of I
make_predictive_iterator(I) ==
  /\ \E key \in I : predictive_it' = NewPredictiveIterator(key)
  /\ UNCHANGED <<lookup_res, access_res, prefix_it, prefix_obs, predictive_obs>>
  /\ UNCHANGED trie_vars
  /\ UNCHANGED io_vars

\* it.next() on the PredictiveIterator; after true the caller reads key(), id()
predictive_next_call ==
  /\ LET o == PredictiveIterator_next(predictive_it)
     IN /\ predictive_it' = o.it
        /\ predictive_obs' =
             [ret    |-> o.ret,
              out    |-> IF o.ret = "true"
                         THEN Append(predictive_obs.out,
                                     [key |-> o.it.buf_, id |-> o.it.id_])
                         ELSE predictive_obs.out,
              after_end |-> IF predictive_obs.ret = "false"
                            THEN predictive_obs.after_end + 1
                            ELSE predictive_obs.after_end]
  /\ UNCHANGED <<lookup_res, access_res, prefix_it, prefix_obs>>
  /\ UNCHANGED trie_vars
  /\ UNCHANGED io_vars

(***************************************************************************)
(* One client object per run.                                              *)
(***************************************************************************)
Lookup == Idle /\ lookup_call(Inputs)

Access == Idle /\ access_call

MakePrefixIterator == Idle /\ make_prefix_iterator(Inputs)

PrefixNext ==
  /\ ~Aborted
  /\ NoQuery /\ NoPredictiveIterator
  /\ prefix_obs.after_end < MaxCallsAfterEnd
  /\ prefix_next_call

MakePredictiveIterator == Idle /\ make_predictive_iterator(Inputs)

PredictiveNext ==
  /\ NoQuery /\ NoPrefixIterator
  /\ predictive_obs.after_end < MaxCallsAfterEnd
  /\ predictive_next_call

Next ==
  \/ Lookup
  \/ Access
  \/ MakePrefixIterator
  \/ PrefixNext
  \/ MakePredictiveIterator
  \/ PredictiveNext

Spec == Init /\ [][Next]_vars

(***************************************************************************)
(* The client of a cursor goes on calling next(): a call that can be made  *)
(* is made.                                                                *)
(***************************************************************************)
LiveInputs == Strings(LiveMaxInputLen)

\* the dictionaries of the runs with a client that goes on calling: at most
\* LiveMaxKeys keys of at most LiveMaxKeyLen bytes
LiveKeySets ==
  {K \in KeySetsUpTo(LiveMaxKeys) : \A k \in K : Len(k) <= LiveMaxKeyLen} \ {{}}

LiveInit == InitFrom(LiveKeySets)

LiveMakePrefixIterator == Idle /\ make_prefix_iterator(LiveInputs)

LiveMakePredictiveIterator == Idle /\ make_predictive_iterator(LiveInputs)

LiveNext ==
  \/ Access
  \/ LiveMakePrefixIterator
  \/ PrefixNext
  \/ LiveMakePredictiveIterator
  \/ PredictiveNext

SpecLive ==
  /\ LiveInit
  /\ [][LiveNext]_vars
  /\ WF_vars(PrefixNext)
  /\ WF_vars(PredictiveNext)

(***************************************************************************)
(* Trie::write and Trie(std::istream&).  The stream is the sequence of the *)
(* images written; an image is read back by the reader of its own type,    *)
(* and a reader given the image of another type makes no sense of it.      *)
(***************************************************************************)
\* the image a component of type t with value v leaves on the stream
Image(t, v) == [type |-> t, val |-> v]

\* the value a reader of type t constructs from the image at position i
ReadAs(t, is, i) ==
  IF i <= Len(is) /\ is[i].type = t THEN is[i].val ELSE "garbage"

\* Trie::write(os) with terminal_flags_ and boundary_flags_ in each other's
\* place
write_flags_swapped(os) ==
  os \o <<Image("bc_type", bc_),
          Image("BitVector", boundary_flags_),
          Image("Vector<char>", tail_),
          Image("BitVector", terminal_flags_),
          Image("Vector<uint8_t>", alphabet_),
          Image("uint8_t[512]", table_),
          Image("size_t", num_keys_),
          Image("size_t", max_length_),
          Image("bool", bin_mode_)>>

\* Trie::write(os)
write(os) ==
  os \o <<Image("bc_type", bc_),
          Image("BitVector", terminal_flags_),
          Image("Vector<char>", tail_),
          Image("BitVector", boundary_flags_),
          Image("Vector<uint8_t>", alphabet_),
          Image("uint8_t[512]", table_),
          Image("size_t", num_keys_),
          Image("size_t", max_length_),
          Image("bool", bin_mode_)>>

\* Trie(std::istream& is): the fields in the order they are read
ReadTrie(is) ==
  [bc              |-> ReadAs("bc_type", is, 1),
   terminal_flags  |-> ReadAs("BitVector", is, 2),
   tail            |-> ReadAs("Vector<char>", is, 3),
   boundary_flags  |-> ReadAs("BitVector", is, 4),
   alphabet        |-> ReadAs("Vector<uint8_t>", is, 5),
   table           |-> ReadAs("uint8_t[512]", is, 6),
   num_keys        |-> ReadAs("size_t", is, 7),
   max_length      |-> ReadAs("size_t", is, 8),
   bin_mode        |-> ReadAs("bool", is, 9)]

\* trie.write(os) on an empty stream
Write ==
  /\ Idle /\ ~loaded_ /\ stream_ = <<>>
  /\ stream_' = write(stream_)
  /\ UNCHANGED loaded_
  /\ UNCHANGED trie_vars
  /\ UNCHANGED <<lookup_res, access_res, prefix_it, prefix_obs,
                 predictive_it, predictive_obs>>

\* Trie(is) on the stream written: the dictionary used from here on
Read ==
  /\ Idle /\ ~loaded_ /\ stream_ # <<>>
  /\ LET t == ReadTrie(stream_)
     IN /\ bc_' = t.bc
        /\ terminal_flags_' = t.terminal_flags
        /\ tail_' = t.tail
        /\ boundary_flags_' = t.boundary_flags
        /\ alphabet_' = t.alphabet
        /\ table_' = t.table
        /\ num_keys_' = t.num_keys
        /\ max_length_' = t.max_length
        /\ bin_mode_' = t.bin_mode
  /\ loaded_' = TRUE
  /\ UNCHANGED <<keys_, stream_>>
  /\ UNCHANGED <<lookup_res, access_res, prefix_it, prefix_obs,
                 predictive_it, predictive_obs>>

\* the dictionary is written, read back, and then queried
StreamNext ==
  \/ Write
  \/ Read
  \/ (loaded_ /\ Next)

SpecStream == Init /\ [][StreamNext]_vars

(***************************************************************************)
(* Clients side by side: a PrefixIterator, a PredictiveIterator and a      *)
(* point query on the same Trie, their calls in any order.  Each cursor is *)
(* driven until next() returns false.                                      *)
(***************************************************************************)
SharedKeySets == KeySetsUpTo(SharedMaxKeys) \ {{}}

SharedInputs == Strings(SharedMaxInputLen)

SharedInit == InitFrom(SharedKeySets)

SharedLookup == ~Aborted /\ NoQuery /\ lookup_call(SharedInputs)

SharedAccess == ~Aborted /\ NoQuery /\ access_call

SharedMakePrefixIterator ==
  ~Aborted /\ NoPrefixIterator /\ make_prefix_iterator(SharedInputs)

SharedPrefixNext == ~Aborted /\ prefix_obs.ret # "false" /\ prefix_next_call

SharedMakePredictiveIterator ==
  ~Aborted /\ NoPredictiveIterator /\ make_predictive_iterator(SharedInputs)

SharedPredictiveNext ==
  ~Aborted /\ predictive_obs.ret # "false" /\ predictive_next_call

SharedNext ==
  \/ SharedLookup
  \/ SharedAccess
  \/ SharedMakePrefixIterator
  \/ SharedPrefixNext
  \/ SharedMakePredictiveIterator
  \/ SharedPredictiveNext

SpecShared == SharedInit /\ [][SharedNext]_vars

(***************************************************************************)
(* The claims.                                                             *)
(***************************************************************************)
\* the keys a cursor has yielded
YieldedKeys(out) == {out[i].key : i \in 1..Len(out)}

\* C1: for every id below num_keys, looking up the key that access decodes
\* for the id returns that id again, in text and in binary mode.
C1_LookupOfAccess ==
  (access_res.called /\ access_res.id < num_keys_)
     => lookup(access_res.dec) = {access_res.id}

\* C1 witness: access decoded a key of a leaf with a stored suffix, for an
\* id other than 0, in binary mode, and lookup maps it back.
C1_Witness ==
  /\ access_res.called /\ access_res.id < num_keys_ /\ access_res.id > 0
  /\ bin_mode_ /\ "tail" \in access_res.reads
  /\ Len(access_res.dec) = MaxKeyLen
  /\ lookup(access_res.dec) = {access_res.id}

\* C2: lookup of a byte string that is not a registered key returns
\* NOT_FOUND, whatever the string.
C2_LookupRejectsNonKeys ==
  (lookup_res.called /\ lookup_res.key \notin keys_)
     => lookup_res.id = NOT_FOUND

\* the registered keys that are prefixes of s
PrefixHits(s) == {k \in keys_ : IsPrefixOf(k, s)}

\* C3: the keys a PrefixIterator on s yields are registered prefixes of s,
\* each with the id lookup returns for it, in strictly increasing length
\* (so each once), and when next() has returned false they are all of them.
C3_PrefixIteratorExact ==
  prefix_it.trie_ =>
    LET out == prefix_obs.out
    IN /\ \A i \in 1..Len(out) :
            /\ out[i].key \in PrefixHits(prefix_it.key_)
            /\ lookup(out[i].key) = {out[i].id}
       /\ \A i, j \in 1..Len(out) : i < j => Len(out[i].key) < Len(out[j].key)
       /\ prefix_obs.ret = "false" => YieldedKeys(out) = PrefixHits(prefix_it.key_)

\* the registered keys that have p as a prefix
PredictiveHits(p) == {k \in keys_ : IsPrefixOf(p, k)}

\* C4: the keys a PredictiveIterator on p yields are registered keys with
\* prefix p, in strictly ascending lexicographic byte order (so each once,
\* a key before its extensions), and when next() has returned false they
\* are all of them.
C4_PredictiveIteratorExact ==
  predictive_it.trie_ =>
    LET out == predictive_obs.out
    IN /\ \A i \in 1..Len(out) : out[i].key \in PredictiveHits(predictive_it.key_)
       /\ \A i, j \in 1..Len(out) : i < j => LexLess(out[i].key, out[j].key)
       /\ predictive_obs.ret = "false"
            => YieldedKeys(out) = PredictiveHits(predictive_it.key_)

\* C4 witness: a finished traversal of a non-empty input that yielded three
\* keys, the first a proper prefix of the second.
C4_Witness ==
  /\ predictive_it.trie_ /\ predictive_it.key_ # <<>>
  /\ predictive_obs.ret = "false"
  /\ Len(predictive_obs.out) = 3
  /\ IsPrefixOf(predictive_obs.out[1].key, predictive_obs.out[2].key)
  /\ YieldedKeys(predictive_obs.out) = PredictiveHits(predictive_it.key_)

\* C5: lookup of a registered key returns an id below num_keys, access of
\* that id gives the key back, and no other registered key has that id.
C5_KeyIdBijection ==
  (lookup_res.called /\ lookup_res.key \in keys_) =>
     /\ lookup_res.id \in 0..(num_keys_ - 1)
     /\ access(lookup_res.id).dec = lookup_res.key
     /\ \A k \in keys_ \ {lookup_res.key} : lookup_res.id \notin lookup(k)

\* C5 witness: lookup found the key with the largest id of a dictionary of
\* MaxKeys keys.
C5_Witness ==
  /\ lookup_res.called /\ lookup_res.key \in keys_
  /\ num_keys_ = MaxKeys /\ lookup_res.id = num_keys_ - 1
  /\ access(lookup_res.id).dec = lookup_res.key

\* C6: a call of next() made after next() has returned false returns false,
\* on a PrefixIterator and on a PredictiveIterator, with or without a trie.
C6_FalseIsFinal ==
  /\ prefix_obs.after_end > 0 => prefix_obs.ret = "false"
  /\ predictive_obs.after_end > 0 => predictive_obs.ret = "false"

\* C6 witness: a PrefixIterator that yielded a key, then returned false, was
\* called again MaxCallsAfterEnd times.
C6_Witness ==
  /\ prefix_it.trie_ /\ prefix_obs.out # <<>>
  /\ prefix_obs.after_end = MaxCallsAfterEnd
  /\ prefix_obs.ret = "false"

\* C7: at tail position 0 the suffix is empty: match_suffix_ succeeds if and
\* only if no input byte remains, and extract_suffix_ appends nothing.
C7_LinkZeroIsEmptySuffix ==
  /\ \A key \in Inputs : \A pos \in 0..Len(key) :
        match_suffix_(View(key), pos, 0)
          = {IF pos = Len(key) THEN "true" ELSE "false"}
  /\ \A dec \in Strings(1) : extract_suffix_(0, dec) = dec

\* C8: access of an id that is not below num_keys returns the empty string
\* and consults no component of the dictionary.
C8_AccessOutOfRange ==
  (access_res.called /\ access_res.id >= num_keys_)
     => (access_res.dec = <<>> /\ access_res.reads = {})

\* C8 witness: access was called with the first id out of range of a
\* dictionary of several keys.
C8_Witness ==
  /\ access_res.called /\ access_res.id = num_keys_ /\ num_keys_ > 1
  /\ access_res.dec = <<>>

\* k holds a NUL byte
NulKey(k) == \E i \in 1..Len(k) : k[i] = NUL

\* s and the key k agree up to and including a NUL of k and differ after it
DiffersAfterNul(s, k) ==
  /\ s # k
  /\ \E i \in 1..Len(k) :
        i <= Len(s) /\ k[i] = NUL /\ SubSeq(s, 1, i) = SubSeq(k, 1, i)

\* C9: in a binary-mode dictionary whose keys hold NUL bytes, a key with a
\* NUL is found by lookup with its own id and decoded in full by access, is
\* yielded in full by a PrefixIterator on it and by every PredictiveIterator
\* on one of its prefixes, and no string that differs from a key only after
\* an embedded NUL is accepted by lookup.
C9_BinaryNulSafety ==
  (bin_mode_ /\ HasNul(keys_)) =>
     /\ (lookup_res.called /\ lookup_res.key \in keys_ /\ NulKey(lookup_res.key))
           => /\ lookup_res.id < num_keys_
              /\ access(lookup_res.id).dec = lookup_res.key
     /\ (prefix_it.trie_ /\ prefix_it.key_ \in keys_ /\ NulKey(prefix_it.key_)
           /\ prefix_obs.ret = "false")
           => \E i \in 1..Len(prefix_obs.out) :
                 /\ prefix_obs.out[i].key = prefix_it.key_
                 /\ lookup(prefix_it.key_) = {prefix_obs.out[i].id}
     /\ (predictive_it.trie_ /\ predictive_obs.ret = "false")
           => \A k \in PredictiveHits(predictive_it.key_) :
                 NulKey(k) => \E i \in 1..Len(predictive_obs.out) :
                                 /\ predictive_obs.out[i].key = k
                                 /\ lookup(k) = {predictive_obs.out[i].id}
     /\ (lookup_res.called /\ lookup_res.key \notin keys_
           /\ \E k \in keys_ : DiffersAfterNul(lookup_res.key, k))
           => lookup_res.id = NOT_FOUND

\* C10: every (key, id) pair a PrefixIterator or a PredictiveIterator yields
\* agrees with the point queries: lookup(key) is id and access(id) is key.
C10_IteratorsAgreeWithPointQueries ==
  /\ \A i \in 1..Len(prefix_obs.out) :
        LET hit == prefix_obs.out[i]
        IN lookup(hit.key) = {hit.id} /\ access(hit.id).dec = hit.key
  /\ \A i \in 1..Len(predictive_obs.out) :
        LET hit == predictive_obs.out[i]
        IN lookup(hit.key) = {hit.id} /\ access(hit.id).dec = hit.key


\* what the caller of a PrefixIterator driven alone can have seen after each
\* call: the pairs yielded so far and the value of the last next()
RECURSIVE PrefixAlone(_, _, _, _)
PrefixAlone(it, oob, faults, out) ==
  UNION {
    LET out2 == IF o.ret = "true"
                THEN Append(out, [key |-> PrefixKey(o.it, o.oob), id |-> o.it.id_])
                ELSE out
    IN {[out |-> out2, ret |-> o.ret]} \cup
       (IF o.ret = "true" THEN PrefixAlone(o.it, o.oob, o.faults, out2) ELSE {})
    : o \in PrefixIterator_next(it, oob, faults)}

\* the same for a PredictiveIterator driven alone
RECURSIVE PredictiveAlone(_, _)
PredictiveAlone(it, out) ==
  LET o    == PredictiveIterator_next(it)
      out2 == IF o.ret = "true"
              THEN Append(out, [key |-> o.it.buf_, id |-> o.it.id_])
              ELSE out
  IN {[out |-> out2, ret |-> o.ret]} \cup
     (IF o.ret = "true" THEN PredictiveAlone(o.it, out2) ELSE {})

\* each cursor has seen what a cursor on the same input driven alone sees
SameAsAlone ==
  /\ (prefix_it.trie_ /\ prefix_obs.ret # "none") =>
        [out |-> prefix_obs.out, ret |-> prefix_obs.ret]
           \in PrefixAlone(NewPrefixIterator(prefix_it.key_), <<>>, {}, <<>>)
  /\ (predictive_it.trie_ /\ predictive_obs.ret # "none") =>
        [out |-> predictive_obs.out, ret |-> predictive_obs.ret]
           \in PredictiveAlone(NewPredictiveIterator(predictive_it.key_), <<>>)

\* a step leaves the fields of the Trie alone, a step of one cursor leaves
\* the other cursor alone, and a point query leaves both cursors alone
TouchesOnlyItsOwn ==
  /\ UNCHANGED trie_vars
  /\ (prefix_it' # prefix_it \/ prefix_obs' # prefix_obs)
        => UNCHANGED <<predictive_it, predictive_obs>>
  /\ (predictive_it' # predictive_it \/ predictive_obs' # predictive_obs)
        => UNCHANGED <<prefix_it, prefix_obs>>
  /\ (lookup_res' # lookup_res \/ access_res' # access_res)
        => UNCHANGED <<prefix_it, prefix_obs, predictive_it, predictive_obs>>

\* C11: lookup, access and next() never change a field of the Trie, next()
\* on a cursor changes only that cursor, and with the calls of two cursors
\* and a point query on one Trie in any order each cursor yields the (key,
\* id) sequence it yields when driven alone.
C11_CursorsIndependent == []SameAsAlone /\ [][TouchesOnlyItsOwn]_vars

\* C11 witness: both cursors are in the middle of their runs, the
\* PredictiveIterator two keys in, and a lookup was made beside them.
C11_Witness ==
  /\ prefix_it.trie_ /\ prefix_obs.ret = "true"
  /\ predictive_it.trie_ /\ predictive_obs.ret = "true"
  /\ Len(predictive_obs.out) = 2
  /\ lookup_res.called /\ lookup_res.id # NOT_FOUND
  /\ SameAsAlone


\* the types of the images on the stream, in their order
StreamTypes == [i \in 1..Len(stream_) |-> stream_[i].type]

\* C12: write puts the components on the stream in the fixed order - packed
\* array, terminal_flags, tail, boundary_flags, alphabet, table, num_keys,
\* max_length, bin_mode - in text and in binary mode alike, and constructing
\* a Trie from that stream restores every field, so every query of the Trie
\* read back is a query of the same dictionary.
C12_WriteReadRoundTrip ==
  /\ [](stream_ # <<>> =>
          StreamTypes = <<"bc_type", "BitVector", "Vector<char>", "BitVector",
                          "Vector<uint8_t>", "uint8_t[512]", "size_t", "size_t",
                          "bool">>)
  /\ [][(loaded_' /\ ~loaded_) => UNCHANGED trie_vars]_vars

\* C12 witness: a text-mode dictionary of MaxKeys keys was written and read
\* back, and a lookup on the Trie read back found a key.
C12_Witness ==
  /\ loaded_ /\ ~bin_mode_ /\ num_keys_ = MaxKeys
  /\ stream_[4].val = boundary_flags_
  /\ lookup_res.called /\ lookup_res.key \in keys_
  /\ lookup_res.id < num_keys_


\* where the walk of the input p from (node_id, pos) ends: "fail" on a
\* missing transition, "leaf" on a leaf with input left, "exhausted" when
\* the input is used up first
RECURSIVE DescentEnd(_, _, _)
DescentEnd(p, node_id, pos) ==
  IF pos = Len(p) THEN [event |-> "exhausted", node_id |-> node_id, pos |-> pos]
  ELSE IF is_leaf(node_id) THEN [event |-> "leaf", node_id |-> node_id, pos |-> pos]
  ELSE LET child_id == Xor(base(node_id), code_(At(p, pos)))
       IN IF check(child_id) # node_id
          THEN [event |-> "fail", node_id |-> node_id, pos |-> pos]
          ELSE DescentEnd(p, child_id, pos + 1)

\* the calls of next() made on the PredictiveIterator
PredictiveCalls ==
  Len(predictive_obs.out) +
  (IF predictive_obs.ret = "false" THEN 1 + predictive_obs.after_end ELSE 0)

\* C13: the first next() of a PredictiveIterator walks the input down.  On a
\* missing transition it returns false, the cursor is ended and has no hit.
\* On a leaf with input left the cursor is ended by one match of the rest of
\* the input: if the rest is a prefix of the stored suffix the first next()
\* yields the whole key (path and stored suffix) and the second returns
\* false, otherwise (link 0 included) the first returns false.  Only when the
\* input is used up is the node reached pushed, as the one seed frame.
C13_PredictiveDescent ==
  (predictive_it.trie_ /\ predictive_obs.ret # "none") =>
    LET p    == predictive_it.key_
        e    == DescentEnd(p, 0, 0)
        out  == predictive_obs.out
        d    == PredictiveDescend(
                  [NewPredictiveIterator(p) EXCEPT !.begin_flag_ = FALSE], 0, 0)
        full == SubSeq(p, 1, e.pos) \o extract_suffix_(link(e.node_id), <<>>)
    IN /\ e.event = "fail" =>
            /\ out = <<>> /\ predictive_obs.ret = "false"
            /\ predictive_it.end_flag_ /\ predictive_it.stack_ = <<>>
       /\ e.event = "leaf" =>
            /\ predictive_it.end_flag_ /\ predictive_it.stack_ = <<>>
            /\ IF link(e.node_id) # 0 /\ IsPrefixOf(p, full)
               THEN /\ out = <<[key |-> full, id |-> to_key_id_(e.node_id)]>>
                    /\ full \in keys_
                    /\ predictive_obs.ret = "false" <=> PredictiveCalls > 1
               ELSE out = <<>> /\ predictive_obs.ret = "false"
       /\ IF e.event = "exhausted"
          THEN /\ d.ret = "go"
               /\ d.it.stack_ =
                    <<Frame(Len(p), IF p = <<>> THEN NUL ELSE p[Len(p)], e.node_id)>>
               /\ ~d.it.end_flag_
          ELSE d.ret # "go" /\ d.it.stack_ = <<>> /\ d.it.end_flag_

\* C13 witness: the input ended inside the suffix of a leaf; the first
\* next() yielded the key, longer than the input, and the second returned
\* false.
C13_Witness ==
  /\ predictive_it.trie_ /\ ~bin_mode_
  /\ DescentEnd(predictive_it.key_, 0, 0).event = "leaf"
  /\ Len(predictive_obs.out) = 1
  /\ Len(predictive_obs.out[1].key) > Len(predictive_it.key_)
  /\ predictive_obs.out[1].key \in keys_
  /\ predictive_obs.ret = "false"


\* the calls of next() made on the PrefixIterator
PrefixCalls ==
  Len(prefix_obs.out) +
  (IF prefix_obs.ret = "false" THEN 1 + prefix_obs.after_end ELSE 0) +
  (IF prefix_obs.ret = "abort" THEN 1 ELSE 0)

\* the walk of the PrefixIterator has reached a leaf: the cursor is on a
\* leaf below the root, or on a leaf root after the first call
PrefixOnLeaf ==
  /\ prefix_it.trie_ /\ is_leaf(prefix_it.node_id_)
  /\ prefix_it.node_id_ # 0 \/ PrefixCalls > 1

\* the pair yielded at the leaf: the whole input and the id of the leaf
PrefixLeafHit ==
  [key |-> prefix_it.key_, id |-> to_key_id_(prefix_it.node_id_)]

\* C14: once the walk of a PrefixIterator has reached a leaf the cursor is
\* exhausted, by one suffix match whose call of next() returns true or
\* false: after true, key() is the whole input and id() the id of the leaf,
\* and the next call returns false; after a non-match id() is NOT_FOUND.  A
\* node that is not a leaf is yielded only if its terminal flag is set.
C14_PrefixLeafStep ==
  /\ PrefixOnLeaf =>
       /\ prefix_it.end_flag_
       /\ prefix_obs.ret \in {"true", "false"}
       /\ prefix_obs.ret = "true" =>
             prefix_obs.out[Len(prefix_obs.out)] = PrefixLeafHit
       /\ prefix_obs.ret = "false" =>
             \/ prefix_it.id_ = NOT_FOUND
             \/ /\ prefix_obs.out # <<>>
                /\ prefix_obs.out[Len(prefix_obs.out)] = PrefixLeafHit
                /\ prefix_it.id_ = PrefixLeafHit.id
  /\ (prefix_it.trie_ /\ prefix_obs.ret = "true" /\ ~is_leaf(prefix_it.node_id_)) =>
       /\ terminal(prefix_it.node_id_)
       /\ prefix_obs.out[Len(prefix_obs.out)].id = to_key_id_(prefix_it.node_id_)


\* the leaves of the dictionary
Leaves == {n \in 0..(NumSlots - 1) : terminal(n) /\ is_leaf(n)}

\* the bytes of key from position pos (0-based) on
Rest(key, pos) == SubSeq(key, pos + 1, Len(key))

\* C15: for every leaf, every input handed to lookup and every position in
\* it, match_suffix_ at the link of the leaf returns true if and only if
\* the input from that position on is the byte string extract_suffix_
\* appends for the link, in text and in binary mode.
C15_MatchIsExtract ==
  lookup_res.called =>
    \A n \in Leaves : \A pos \in 0..Len(lookup_res.key) :
       match_suffix_(View(lookup_res.key), pos, link(n))
         = {IF Rest(lookup_res.key, pos) = extract_suffix_(link(n), <<>>)
            THEN "true" ELSE "false"}


\* following CHECK upward from node_id reaches the root in at most n steps
RECURSIVE ReachesRoot(_, _)
ReachesRoot(node_id, n) ==
  \/ node_id = 0
  \/ n > 0 /\ InArray(check(node_id)) /\ ReachesRoot(check(node_id), n - 1)

\* C16: every traversal ends: a PrefixIterator and a PredictiveIterator
\* whose next() is called again and again return false after finitely many
\* calls, and the upward walk of access reaches node 0 within as many steps
\* as the longest key has bytes.
C16_TraversalsEnd ==
  /\ prefix_it.trie_ ~> (prefix_obs.ret = "false")
  /\ predictive_it.trie_ ~> (predictive_obs.ret = "false")
  /\ []((access_res.called /\ access_res.id < num_keys_)
          => ReachesRoot(to_node_id_(access_res.id), max_length_))

\* C17: a PrefixIterator never consumes more input than exists: in every
\* state of the cursor pos_ is at most the length of the input, the input
\* was never indexed at or past its length, and every key() read after a
\* next() that returned true is a prefix of the input.
C17_PrefixStaysInsideInput ==
  prefix_it.trie_ =>
    /\ prefix_it.pos_ <= Len(prefix_it.key_)
    /\ "index" \notin prefix_obs.faults
    /\ \A i \in 1..Len(prefix_obs.out) :
          IsPrefixOf(prefix_obs.out[i].key, prefix_it.key_)

\* C18: the assertion pos <= key.length() at the top of match_suffix_ holds
\* at every call: lookup never ends in the failed assertion, and no call of
\* next() on a PrefixIterator does.
C18_AssertHolds ==
  /\ lookup_res.id # ABORTED
  /\ "assert" \notin prefix_obs.faults
  /\ prefix_obs.ret # "abort"

====
